---- MODULE Spec2Model ----
(***************************************************************************)
(* A state-machine model of aicp_ros/src/app_ros.cpp (class AppROS): the   *)
(* pose-prior callback, the lidar callback with its motion gate and        *)
(* bounded cloud queue, the interactive-marker callback, the map loader,   *)
(* and the alignment worker that consumes the queue.                       *)
(*                                                                         *)
(* Poses are rigid transforms [R, t]: R a 3x3 rotation matrix with integer *)
(* entries (row-major tuple of 9), t a translation in tenths of a length   *)
(* unit.  Composition and inversion are the exact matrix formulas, so the  *)
(* group is non-commutative as Eigen::Isometry3d is.                       *)
(***************************************************************************)
EXTENDS Integers, Sequences, FiniteSets, TLC

(* ------------------------------------------------------------------ *)
(* Bounds of the model                                                *)
(* ------------------------------------------------------------------ *)

\* largest accu_config_.batch_size the model configures
MaxBatchSize == 2
\* number of AlignedCloud objects the lidar callback may create under Spec
MaxClouds == 1
\* the same under SpecGate
MaxGateClouds == 2
\* significand bits of the modelled single-precision float (24 in IEEE binary32)
FloatBits == 3
\* number of pushes beyond max_queue_size explored under SpecQueue
QueueOverrun == 2
\* number of clouds the worker takes under SpecPush
MaxPops == 2
\* number of marker poses accepted before localization starts
MaxInitialPoses == 2
\* farthest place reached under SpecCreep, in steps of half a length unit
MaxCreep == 4

(* ------------------------------------------------------------------ *)
(* Program constants                                                  *)
(* ------------------------------------------------------------------ *)

\* const int max_queue_size = 100
MaxQueueDepth == 100
\* dist > 1.0, in tenths of a length unit
DistThreshold == 10
\* 10.0 * M_PI / 180.0, in degrees
AngleThreshold == 10

(* ------------------------------------------------------------------ *)
(* Eigen::Isometry3d                                                  *)
(* ------------------------------------------------------------------ *)

Abs(x) == IF x < 0 THEN -x ELSE x

RotId == <<1, 0, 0,   0, 1, 0,   0, 0, 1>>
RotX90 == <<1, 0, 0,   0, 0, -1,   0, 1, 0>>
RotY90 == <<0, 0, 1,   0, 1, 0,   -1, 0, 0>>
RotZ90 == <<0, -1, 0,   1, 0, 0,   0, 0, 1>>

\* entry (i, j) of a row-major 3x3 matrix
At(M, i, j) == M[3 * (i - 1) + j]

MatMul(A, B) ==
    [n \in 1..9 |->
        LET i == ((n - 1) \div 3) + 1
            j == ((n - 1) % 3) + 1
        IN  At(A, i, 1) * At(B, 1, j) + At(A, i, 2) * At(B, 2, j)
              + At(A, i, 3) * At(B, 3, j)]

MatVec(A, v) ==
    [i \in 1..3 |-> At(A, i, 1) * v[1] + At(A, i, 2) * v[2] + At(A, i, 3) * v[3]]

Transpose(A) ==
    [n \in 1..9 |->
        LET i == ((n - 1) \div 3) + 1
            j == ((n - 1) % 3) + 1
        IN  At(A, j, i)]

Pose(R, t) == [R |-> R, t |-> t]

Identity == Pose(RotId, <<0, 0, 0>>)

\* a * b : operator* of Eigen::Isometry3d
Compose(a, b) ==
    Pose(MatMul(a.R, b.R),
         [i \in 1..3 |-> MatVec(a.R, b.t)[i] + a.t[i]])

\* a.inverse()
Inverse(a) ==
    Pose(Transpose(a.R),
         [i \in 1..3 |-> 0 - MatVec(Transpose(a.R), a.t)[i]])

\* square of translation().norm()
NormSq(p) == p.t[1] * p.t[1] + p.t[2] * p.t[2] + p.t[3] * p.t[3]

\* atan2(y, x) in degrees, for y, x in {-1, 0, 1} not both non-zero
Atan2Deg(y, x) ==
    IF y = 0 THEN (IF x < 0 THEN 180 ELSE 0)
    ELSE IF y > 0 THEN 90 ELSE -90

\* asin(s) in degrees, for s in {-1, 0, 1}
AsinDeg(s) == 90 * s

\* quat_to_euler(Eigen::Quaterniond(p.rotation()), roll, pitch, yaw), in degrees
quat_to_euler(p) ==
    << Atan2Deg(At(p.R, 3, 2), At(p.R, 3, 3)),
       AsinDeg(0 - At(p.R, 3, 1)),
       Atan2Deg(At(p.R, 2, 1), At(p.R, 1, 1)) >>

Trans(x, y, z) == Pose(RotId, <<x, y, z>>)

\* x rounded to the nearest value with FloatBits significant bits (ties to even)
RECURSIVE FloatStep(_, _)
FloatStep(n, step) ==
    IF n \div step < 2 ^ FloatBits THEN step ELSE FloatStep(n, 2 * step)

RoundFloat(n) ==
    LET step == FloatStep(n, 1)
        q == n \div step
        r == n % step
    IN  IF 2 * r > step \/ (2 * r = step /\ q % 2 = 1)
        THEN (q + 1) * step
        ELSE q * step

CastFloat(x) == IF x < 0 THEN 0 - RoundFloat(0 - x) ELSE RoundFloat(x)

\* a.matrix().cast<float>(): every entry rounded to single precision
MatrixCastFloat(a) ==
    [R |-> [n \in 1..9 |-> CastFloat(a.R[n])], t |-> [i \in 1..3 |-> CastFloat(a.t[i])]]

\* fromMatrix4fToIsometry3d(m): the isometry with the entries of the float
\* matrix m (widening float to double changes no value)
fromMatrix4fToIsometry3d(m) == Pose(m.R, m.t)

(* ------------------------------------------------------------------ *)
(* Inputs                                                             *)
(* ------------------------------------------------------------------ *)

\* pose priors delivered to robotPoseCallBack under Spec
RawPoses == { Identity, Trans(15, 0, 0), Pose(RotZ90, <<0, 0, 0>>) }

\* pose priors delivered under SpecGate: 0.5, 1.0 and 1.5 length units along x,
\* and a quarter turn about each axis
GatePoses ==
    { Identity, Trans(5, 0, 0), Trans(10, 0, 0), Trans(15, 0, 0),
      Pose(RotX90, <<0, 0, 0>>), Pose(RotY90, <<0, 0, 0>>), Pose(RotZ90, <<0, 0, 0>>) }

\* pose priors delivered under SpecQueue: two places 1.5 length units apart
QueuePoses == { Identity, Trans(15, 0, 0) }

\* pose priors delivered under SpecCreep: places half a length unit apart along x
CreepPoses == { Trans(5 * k, 0, 0) : k \in 0..MaxCreep }

\* interactive-marker poses
MarkerPoses == { Pose(RotZ90, <<4, 0, 0>>), Trans(15, 0, 0) }

\* corrections the registration may return
Corrections == { Pose(RotZ90, <<0, 2, 0>>) }

\* map files a load request may name
MapFiles == {1, 2}

\* the map service disabled, and enabled by one of the two flags that enable it
Configs ==
    { [load_map_from_file |-> FALSE, localize_against_prior_map |-> FALSE],
      [load_map_from_file |-> FALSE, localize_against_prior_map |-> TRUE] }

(* ------------------------------------------------------------------ *)
(* State                                                              *)
(* ------------------------------------------------------------------ *)

VARIABLES
    cl_cfg_,                    \* command-line configuration (the two map flags)
    batch_size,                 \* accu_config_.batch_size
    pose_initialized_,
    pose_marker_initialized_,
    map_initialized_,
    world_to_body_,             \* latest pose prior
    world_to_body_previous_,    \* pose prior of the last dispatched cloud
    world_to_body_marker_msg_,  \* initial guess from the interactive marker
    total_correction_,
    corrected_pose_,
    updated_correction_,
    clear_clouds_buffer_,
    accu_counter,               \* accu_->getCounter()
    accu_finished,              \* accu_->getFinished()
    cloud_queue_,               \* sequence of AlignedCloud records, front first
    clouds_made,                \* AlignedCloud objects created by the lidar callback
    drops_reported,             \* sum of the counts printed by "WARNING: dropping"
    clouds_popped,              \* clouds the worker has taken from the queue
    prior_map_,                 \* file the prior map was built from, 0 for none
    response_success,           \* last value returned by loadMapFromFile
    ros_log,                    \* source line of the last ROS_WARN / ROS_ERROR
    initial_poses_set,          \* "Set localization initial pose in map." lines logged
    worker_notified,            \* a notify_one() not yet consumed by the worker
    robot_state_mutex_,
    cloud_accumulate_mutex_,
    data_mutex_,
    relative_motion,            \* local of velodyneCallBack
    pc,                         \* where the callback thread is
    wpc                         \* where the worker thread is

vars ==
    << cl_cfg_, batch_size, pose_initialized_, pose_marker_initialized_,
       map_initialized_, world_to_body_, world_to_body_previous_,
       world_to_body_marker_msg_, total_correction_, corrected_pose_,
       updated_correction_, clear_clouds_buffer_, accu_counter, accu_finished,
       cloud_queue_, clouds_made, drops_reported, clouds_popped, prior_map_,
       response_success, ros_log, initial_poses_set, worker_notified,
       robot_state_mutex_, cloud_accumulate_mutex_,
       data_mutex_, relative_motion, pc, wpc >>

configVars == << cl_cfg_, batch_size >>
flagVars == << pose_initialized_, pose_marker_initialized_, map_initialized_ >>
poseVars ==
    << world_to_body_, world_to_body_previous_, world_to_body_marker_msg_,
       total_correction_, corrected_pose_ >>
accuVars == << accu_counter, accu_finished >>
queueVars == << cloud_queue_, clouds_made, drops_reported >>
mapVars == << prior_map_, response_success >>
mutexVars == << robot_state_mutex_, cloud_accumulate_mutex_, data_mutex_ >>

\* cl_cfg_.load_map_from_file || cl_cfg_.localize_against_prior_map
MapServiceEnabled == cl_cfg_.load_map_from_file \/ cl_cfg_.localize_against_prior_map

(* ------------------------------------------------------------------ *)
(* Construction                                                       *)
(* ------------------------------------------------------------------ *)

\* AppROS::AppROS: identity poses, then loadMapFromFile(cl_cfg_.map_from_file_path),
\* which fails when the service is disabled or the file cannot be read
Init ==
    /\ cl_cfg_ \in Configs
    /\ batch_size \in 1..MaxBatchSize
    /\ pose_initialized_ = FALSE
    /\ pose_marker_initialized_ = FALSE
    /\ world_to_body_ = Identity
    /\ world_to_body_previous_ = Identity
    /\ world_to_body_marker_msg_ = Identity
    /\ total_correction_ = Identity
    /\ corrected_pose_ = Identity
    /\ updated_correction_ = FALSE
    /\ clear_clouds_buffer_ = FALSE
    /\ accu_counter = 0
    /\ accu_finished = FALSE
    /\ cloud_queue_ = << >>
    /\ clouds_made = 0
    /\ drops_reported = 0
    /\ clouds_popped = 0
    /\ \/ /\ ~MapServiceEnabled
          /\ map_initialized_ = FALSE /\ prior_map_ = 0 /\ ros_log = 240
       \/ /\ MapServiceEnabled
          /\ map_initialized_ = FALSE /\ prior_map_ = 0 /\ ros_log = 255
       \/ /\ MapServiceEnabled
          /\ map_initialized_ = TRUE /\ prior_map_ \in MapFiles /\ ros_log = 0
    /\ response_success = map_initialized_
    /\ initial_poses_set = 0
    /\ worker_notified = FALSE
    /\ robot_state_mutex_ = "free"
    /\ cloud_accumulate_mutex_ = "free"
    /\ data_mutex_ = "free"
    /\ relative_motion = Identity
    /\ pc = "idle"
    /\ wpc = "wait"

(* ------------------------------------------------------------------ *)
(* VelodyneAccumulatorROS, as the callbacks use it                    *)
(* ------------------------------------------------------------------ *)

\* accu_->processLidar: one more scan; finished once batch_size scans are in
processLidar ==
    /\ accu_counter' = accu_counter + 1
    /\ accu_finished' = (accu_counter + 1 >= batch_size)

\* accu_->clearCloud: empty cloud, counter 0, not finished
clearCloud ==
    /\ accu_counter' = 0
    /\ accu_finished' = FALSE

(* ------------------------------------------------------------------ *)
(* AppROS::robotPoseCallBack                                          *)
(* ------------------------------------------------------------------ *)

\* mutant of InitialCorrection: the product is taken in the other order
InitialCorrectionSwapped(marker, raw) ==
    fromMatrix4fToIsometry3d(MatrixCastFloat(Compose(Inverse(raw), marker)))

\* initialT_ = (world_to_body_marker_msg_ * world_to_body_.inverse()).matrix().cast<float>()
\* total_correction_ = fromMatrix4fToIsometry3d(initialT_)
InitialCorrection(marker, raw) ==
    fromMatrix4fToIsometry3d(MatrixCastFloat(Compose(marker, Inverse(raw))))

\* corrected_pose_ = total_correction_ * world_to_body_
CorrectedPose(correction, raw) == Compose(correction, raw)

\* mutant of PoseRejected: the guard tests map_initialized_
PoseRejectedWithoutMap == MapServiceEnabled /\ ~map_initialized_

\* mutant of PoseRejected: the two configuration flags are and-ed
PoseRejectedBothFlags ==
    /\ cl_cfg_.load_map_from_file /\ cl_cfg_.localize_against_prior_map
    /\ ~pose_marker_initialized_

\* the guard that rejects a pose prior while the marker is awaited
PoseRejected == MapServiceEnabled /\ ~pose_marker_initialized_

\* mutant of robotPoseCallBack: the correction is derived from the marker pose
\* on every pose prior, not only the first
robotPoseCallBack_deriveAlways(pose_msg_in) ==
    /\ pc = "idle"
    /\ IF PoseRejected
       THEN /\ ros_log' = 56
            /\ UNCHANGED << configVars, flagVars, poseVars, updated_correction_,
                            clear_clouds_buffer_, accuVars, queueVars, clouds_popped,
                            mapVars, worker_notified, mutexVars, relative_motion, pc,
                            wpc >>
       ELSE /\ robot_state_mutex_ = "free"
            /\ robot_state_mutex_' = "producer"
            /\ world_to_body_' = pose_msg_in
            /\ world_to_body_previous_' =
                   IF pose_initialized_ THEN world_to_body_previous_ ELSE pose_msg_in
            /\ total_correction_' =
                   IF MapServiceEnabled
                   THEN InitialCorrection(world_to_body_marker_msg_, pose_msg_in)
                   ELSE total_correction_
            /\ corrected_pose_' = CorrectedPose(total_correction_', pose_msg_in)
            /\ pc' = "rp101"
            /\ UNCHANGED << configVars, flagVars, world_to_body_marker_msg_,
                            updated_correction_, clear_clouds_buffer_, accuVars,
                            queueVars, clouds_popped, mapVars, ros_log, worker_notified,
                            cloud_accumulate_mutex_, data_mutex_, relative_motion,
                            wpc >>
    /\ UNCHANGED initial_poses_set

\* lines 52-99: guard, robot_state_mutex_ taken, pose recorded, first-pose
\* initialisation, corrected pose composed and published
robotPoseCallBack(pose_msg_in) ==
    /\ pc = "idle"
    /\ IF PoseRejected
       THEN /\ ros_log' = 56
            /\ UNCHANGED << configVars, flagVars, poseVars, updated_correction_,
                            clear_clouds_buffer_, accuVars, queueVars, clouds_popped,
                            mapVars, worker_notified, mutexVars, relative_motion, pc,
                            wpc >>
       ELSE /\ robot_state_mutex_ = "free"
            /\ robot_state_mutex_' = "producer"
            /\ world_to_body_' = pose_msg_in
            /\ world_to_body_previous_' =
                   IF pose_initialized_ THEN world_to_body_previous_ ELSE pose_msg_in
            /\ total_correction_' =
                   IF ~pose_initialized_ /\ MapServiceEnabled
                   THEN InitialCorrection(world_to_body_marker_msg_, pose_msg_in)
                   ELSE total_correction_
            /\ corrected_pose_' = CorrectedPose(total_correction_', pose_msg_in)
            /\ pc' = "rp101"
            /\ UNCHANGED << configVars, flagVars, world_to_body_marker_msg_,
                            updated_correction_, clear_clouds_buffer_, accuVars,
                            queueVars, clouds_popped, mapVars, ros_log, worker_notified,
                            cloud_accumulate_mutex_, data_mutex_, relative_motion,
                            wpc >>
    /\ UNCHANGED initial_poses_set

\* lines 101-105: a new correction was applied; cloud_accumulate_mutex_ is taken
\* (robot_state_mutex_ still held) and the buffer clear is requested
robotPoseCallBack_requestClear ==
    /\ pc = "rp101"
    /\ updated_correction_
    /\ cloud_accumulate_mutex_ = "free"
    /\ cloud_accumulate_mutex_' = "producer"
    /\ clear_clouds_buffer_' = TRUE
    /\ pc' = "rp106"
    /\ UNCHANGED << configVars, flagVars, poseVars, updated_correction_, accuVars,
                    queueVars, clouds_popped, mapVars, ros_log, worker_notified,
                    robot_state_mutex_, data_mutex_, relative_motion, wpc >>
    /\ UNCHANGED initial_poses_set

\* lines 106-132: inner lock released and updated_correction_ reset (when the
\* branch was taken), pose_initialized_ set, robot_state_mutex_ released on return
robotPoseCallBack_return ==
    /\ \/ pc = "rp101" /\ ~updated_correction_
       \/ pc = "rp106"
    /\ cloud_accumulate_mutex_' = "free"
    /\ updated_correction_' = FALSE
    /\ pose_initialized_' = TRUE
    /\ robot_state_mutex_' = "free"
    /\ pc' = "idle"
    /\ UNCHANGED << configVars, pose_marker_initialized_, map_initialized_, poseVars,
                    clear_clouds_buffer_, accuVars, queueVars, clouds_popped, mapVars,
                    ros_log, worker_notified, data_mutex_, relative_motion, wpc >>
    /\ UNCHANGED initial_poses_set

(* ------------------------------------------------------------------ *)
(* AppROS::velodyneCallBack                                           *)
(* ------------------------------------------------------------------ *)

\* relative_motion = world_to_body_previous_.inverse() * world_to_body_
RelativeMotion(previous, current) == Compose(Inverse(previous), current)

\* mutant of MotionGate: every finished cloud passes
MotionGateOpen(motion) == NormSq(motion) >= 0

\* mutant of MotionGate: the distance test is dist >= 1.0
MotionGateInclusive(motion) ==
    \/ NormSq(motion) >= DistThreshold * DistThreshold
    \/ Abs(quat_to_euler(motion)[1]) > AngleThreshold
    \/ Abs(quat_to_euler(motion)[2]) > AngleThreshold
    \/ Abs(quat_to_euler(motion)[3]) > AngleThreshold

\* mutant of MotionGate: the condition on pitch is missing
MotionGateNoPitch(motion) ==
    \/ NormSq(motion) > DistThreshold * DistThreshold
    \/ Abs(quat_to_euler(motion)[1]) > AngleThreshold
    \/ Abs(quat_to_euler(motion)[3]) > AngleThreshold

\* (dist > 1.0) || fabs(rpy[0]) > 10 deg || fabs(rpy[1]) > 10 deg || fabs(rpy[2]) > 10 deg
MotionGate(motion) ==
    \/ NormSq(motion) > DistThreshold * DistThreshold
    \/ Abs(quat_to_euler(motion)[1]) > AngleThreshold
    \/ Abs(quat_to_euler(motion)[2]) > AngleThreshold
    \/ Abs(quat_to_euler(motion)[3]) > AngleThreshold

\* new AlignedCloud(accu_->getFinishedTime(), accumulated_cloud, world_to_body_):
\* the id-th object created, holding the accumulated scans and the pose prior
AlignedCloud(id, scans, pose) == [id |-> id, scans |-> scans, pose |-> pose]

\* mutant of DropCount: the warning counts one cloud too few
DropCountOffByOne(queue) ==
    IF Len(queue) > MaxQueueDepth THEN Len(queue) - MaxQueueDepth - 1 ELSE 0

\* cloud_queue_.size() - max_queue_size, the count printed by the warning
DropCount(queue) ==
    IF Len(queue) > MaxQueueDepth THEN Len(queue) - MaxQueueDepth ELSE 0

\* mutant of DropOldest: overflow is removed from the back (pop_back)
DropNewest(queue) ==
    IF Len(queue) > MaxQueueDepth THEN SubSeq(queue, 1, MaxQueueDepth) ELSE queue

\* while (cloud_queue_.size() > max_queue_size) cloud_queue_.pop_front()
RECURSIVE DropOldest(_)
DropOldest(queue) ==
    IF Len(queue) > MaxQueueDepth THEN DropOldest(Tail(queue)) ELSE queue

\* lines 134-145 and 158-162: guard; with no clear pending the scan goes to the
\* accumulator and the relative motion is computed; with a clear pending
\* cloud_accumulate_mutex_ is taken
velodyneCallBack ==
    /\ pc = "idle"
    /\ IF ~pose_initialized_
       THEN /\ ros_log' = 136
            /\ UNCHANGED << accuVars, cloud_accumulate_mutex_, relative_motion, pc >>
       ELSE IF ~clear_clouds_buffer_
       THEN /\ processLidar
            /\ relative_motion' = RelativeMotion(world_to_body_previous_, world_to_body_)
            /\ pc' = "vc164"
            /\ UNCHANGED << ros_log, cloud_accumulate_mutex_ >>
       ELSE /\ cloud_accumulate_mutex_ = "free"
            /\ cloud_accumulate_mutex_' = "producer"
            /\ pc' = "vc150"
            /\ UNCHANGED << ros_log, accuVars, relative_motion >>
    /\ UNCHANGED << configVars, flagVars, poseVars, updated_correction_,
                    clear_clouds_buffer_, queueVars, clouds_popped, mapVars,
                    worker_notified, robot_state_mutex_, data_mutex_, wpc >>
    /\ UNCHANGED initial_poses_set

\* mutant of velodyneCallBack_clear: clear_clouds_buffer_ is not reset
velodyneCallBack_clearSticky ==
    /\ pc = "vc150"
    /\ cloud_accumulate_mutex_' = "free"
    /\ IF accu_counter > 0 THEN clearCloud ELSE UNCHANGED accuVars
    /\ relative_motion' = RelativeMotion(world_to_body_previous_, world_to_body_)
    /\ pc' = "vc164"
    /\ UNCHANGED << configVars, flagVars, poseVars, updated_correction_,
                    clear_clouds_buffer_, queueVars, clouds_popped, mapVars, ros_log,
                    worker_notified, robot_state_mutex_, data_mutex_, wpc >>
    /\ UNCHANGED initial_poses_set

\* lines 150-162: the pending clear is consumed, the lock released, a non-empty
\* accumulator cleared, and the relative motion computed
velodyneCallBack_clear ==
    /\ pc = "vc150"
    /\ clear_clouds_buffer_' = FALSE
    /\ cloud_accumulate_mutex_' = "free"
    /\ IF accu_counter > 0 THEN clearCloud ELSE UNCHANGED accuVars
    /\ relative_motion' = RelativeMotion(world_to_body_previous_, world_to_body_)
    /\ pc' = "vc164"
    /\ UNCHANGED << configVars, flagVars, poseVars, updated_correction_, queueVars,
                    clouds_popped, mapVars, ros_log, worker_notified,
                    robot_state_mutex_, data_mutex_, wpc >>
    /\ UNCHANGED initial_poses_set

\* mutant of velodyneCallBack_gate: the push leaves world_to_body_previous_ as
\* it was
velodyneCallBack_gate_keepBaseline ==
    /\ pc = "vc164"
    /\ IF accu_finished /\ MotionGate(relative_motion)
       THEN /\ data_mutex_ = "free"
            /\ data_mutex_' = "producer"
            /\ cloud_queue_' =
                   Append(cloud_queue_,
                          AlignedCloud(clouds_made + 1, accu_counter, world_to_body_))
            /\ clouds_made' = clouds_made + 1
            /\ pc' = "vc193"
            /\ UNCHANGED << accuVars, worker_notified, relative_motion >>
       ELSE /\ IF accu_finished
               THEN clearCloud /\ worker_notified' = TRUE
               ELSE UNCHANGED << accuVars, worker_notified >>
            /\ relative_motion' = Identity
            /\ pc' = "idle"
            /\ UNCHANGED << data_mutex_, cloud_queue_, clouds_made >>
    /\ UNCHANGED << configVars, flagVars, poseVars, updated_correction_,
                    clear_clouds_buffer_, drops_reported, clouds_popped, mapVars,
                    ros_log, robot_state_mutex_, cloud_accumulate_mutex_, wpc >>
    /\ UNCHANGED initial_poses_set

\* mutant of velodyneCallBack_gate: world_to_body_previous_ is also advanced
\* when a finished cloud is rejected
velodyneCallBack_gate_advanceOnReject ==
    /\ pc = "vc164"
    /\ IF accu_finished /\ MotionGate(relative_motion)
       THEN /\ data_mutex_ = "free"
            /\ data_mutex_' = "producer"
            /\ world_to_body_previous_' = world_to_body_
            /\ cloud_queue_' =
                   Append(cloud_queue_,
                          AlignedCloud(clouds_made + 1, accu_counter, world_to_body_))
            /\ clouds_made' = clouds_made + 1
            /\ pc' = "vc193"
            /\ UNCHANGED << accuVars, worker_notified, relative_motion >>
       ELSE /\ IF accu_finished
               THEN /\ clearCloud
                    /\ worker_notified' = TRUE
                    /\ world_to_body_previous_' = world_to_body_
               ELSE UNCHANGED << accuVars, worker_notified, world_to_body_previous_ >>
            /\ relative_motion' = Identity
            /\ pc' = "idle"
            /\ UNCHANGED << data_mutex_, cloud_queue_, clouds_made >>
    /\ UNCHANGED << configVars, flagVars, world_to_body_, world_to_body_marker_msg_,
                    total_correction_, corrected_pose_, updated_correction_,
                    clear_clouds_buffer_, drops_reported, clouds_popped, mapVars,
                    ros_log, robot_state_mutex_, cloud_accumulate_mutex_, wpc >>
    /\ UNCHANGED initial_poses_set

\* mutant of velodyneCallBack_gate: a finished cloud that does not pass the
\* motion gate is kept in the accumulator and the worker is not notified
velodyneCallBack_gate_keepRejected ==
    /\ pc = "vc164"
    /\ IF accu_finished /\ MotionGate(relative_motion)
       THEN /\ data_mutex_ = "free"
            /\ data_mutex_' = "producer"
            /\ world_to_body_previous_' = world_to_body_
            /\ cloud_queue_' =
                   Append(cloud_queue_,
                          AlignedCloud(clouds_made + 1, accu_counter, world_to_body_))
            /\ clouds_made' = clouds_made + 1
            /\ pc' = "vc193"
            /\ UNCHANGED << accuVars, worker_notified, relative_motion >>
       ELSE /\ relative_motion' = Identity
            /\ pc' = "idle"
            /\ UNCHANGED << accuVars, worker_notified, data_mutex_,
                            world_to_body_previous_, cloud_queue_, clouds_made >>
    /\ UNCHANGED << configVars, flagVars, world_to_body_, world_to_body_marker_msg_,
                    total_correction_, corrected_pose_, updated_correction_,
                    clear_clouds_buffer_, drops_reported, clouds_popped, mapVars,
                    ros_log, robot_state_mutex_, cloud_accumulate_mutex_, wpc >>
    /\ UNCHANGED initial_poses_set

\* lines 164-191 and 202-206: a finished cloud that passes the motion gate is
\* wrapped and pushed under data_mutex_; a finished cloud that does not is
\* cleared and the worker notified; an unfinished one returns
velodyneCallBack_gate ==
    /\ pc = "vc164"
    /\ IF accu_finished /\ MotionGate(relative_motion)
       THEN /\ data_mutex_ = "free"
            /\ data_mutex_' = "producer"
            /\ world_to_body_previous_' = world_to_body_
            /\ cloud_queue_' =
                   Append(cloud_queue_,
                          AlignedCloud(clouds_made + 1, accu_counter, world_to_body_))
            /\ clouds_made' = clouds_made + 1
            /\ pc' = "vc193"
            /\ UNCHANGED << accuVars, worker_notified, relative_motion >>
       ELSE /\ IF accu_finished
               THEN clearCloud /\ worker_notified' = TRUE
               ELSE UNCHANGED << accuVars, worker_notified >>
            /\ relative_motion' = Identity
            /\ pc' = "idle"
            /\ UNCHANGED << data_mutex_, world_to_body_previous_, cloud_queue_,
                            clouds_made >>
    /\ UNCHANGED << configVars, flagVars, world_to_body_, world_to_body_marker_msg_,
                    total_correction_, corrected_pose_, updated_correction_,
                    clear_clouds_buffer_, drops_reported, clouds_popped, mapVars,
                    ros_log, robot_state_mutex_, cloud_accumulate_mutex_, wpc >>
    /\ UNCHANGED initial_poses_set

\* mutant of velodyneCallBack_truncate: the push waits for room in the queue
velodyneCallBack_truncate_waitForRoom ==
    /\ pc = "vc193"
    /\ Len(cloud_queue_) <= MaxQueueDepth
    /\ data_mutex_' = "free"
    /\ clearCloud
    /\ worker_notified' = TRUE
    /\ relative_motion' = Identity
    /\ pc' = "idle"
    /\ UNCHANGED << configVars, flagVars, poseVars, updated_correction_,
                    clear_clouds_buffer_, queueVars, clouds_popped, mapVars, ros_log,
                    robot_state_mutex_, cloud_accumulate_mutex_, wpc >>
    /\ UNCHANGED initial_poses_set

\* lines 193-206: overflow reported and dropped from the front, data_mutex_
\* released, accumulator cleared, worker notified
velodyneCallBack_truncate ==
    /\ pc = "vc193"
    /\ drops_reported' = drops_reported + DropCount(cloud_queue_)
    /\ cloud_queue_' = DropOldest(cloud_queue_)
    /\ data_mutex_' = "free"
    /\ clearCloud
    /\ worker_notified' = TRUE
    /\ relative_motion' = Identity
    /\ pc' = "idle"
    /\ UNCHANGED << configVars, flagVars, poseVars, updated_correction_,
                    clear_clouds_buffer_, clouds_made, clouds_popped, mapVars, ros_log,
                    robot_state_mutex_, cloud_accumulate_mutex_, wpc >>
    /\ UNCHANGED initial_poses_set

(* ------------------------------------------------------------------ *)
(* AppROS::interactionMarkerCallBack and AppROS::loadMapFromFile      *)
(* ------------------------------------------------------------------ *)

\* mutant of interactionMarkerCallBack: the map_initialized_ check is missing
interactionMarkerCallBack_noMapCheck(init_pose_msg_in) ==
    /\ pc = "idle"
    /\ IF ~MapServiceEnabled
       THEN /\ ros_log' = 212
            /\ UNCHANGED << world_to_body_marker_msg_,
                            pose_marker_initialized_, initial_poses_set >>
       ELSE IF ~pose_initialized_
       THEN /\ world_to_body_marker_msg_' = init_pose_msg_in
            /\ pose_marker_initialized_' = TRUE
            /\ initial_poses_set' = initial_poses_set + 1
            /\ UNCHANGED ros_log
       ELSE /\ ros_log' = 228
            /\ UNCHANGED << world_to_body_marker_msg_,
                            pose_marker_initialized_, initial_poses_set >>
    /\ UNCHANGED << configVars, pose_initialized_, map_initialized_, world_to_body_,
                    world_to_body_previous_, total_correction_, corrected_pose_,
                    updated_correction_, clear_clouds_buffer_, accuVars, queueVars,
                    clouds_popped, mapVars, worker_notified, mutexVars, relative_motion,
                    pc, wpc >>

\* mutant of interactionMarkerCallBack: only the first marker pose is recorded
interactionMarkerCallBack_firstOnly(init_pose_msg_in) ==
    /\ pc = "idle"
    /\ IF ~MapServiceEnabled
       THEN /\ ros_log' = 212
            /\ UNCHANGED << world_to_body_marker_msg_,
                            pose_marker_initialized_, initial_poses_set >>
       ELSE IF ~map_initialized_
       THEN /\ ros_log' = 216
            /\ UNCHANGED << world_to_body_marker_msg_,
                            pose_marker_initialized_, initial_poses_set >>
       ELSE IF ~pose_initialized_ /\ ~pose_marker_initialized_
       THEN /\ world_to_body_marker_msg_' = init_pose_msg_in
            /\ pose_marker_initialized_' = TRUE
            /\ initial_poses_set' = initial_poses_set + 1
            /\ UNCHANGED ros_log
       ELSE /\ ros_log' = 228
            /\ UNCHANGED << world_to_body_marker_msg_,
                            pose_marker_initialized_, initial_poses_set >>
    /\ UNCHANGED << configVars, pose_initialized_, map_initialized_, world_to_body_,
                    world_to_body_previous_, total_correction_, corrected_pose_,
                    updated_correction_, clear_clouds_buffer_, accuVars, queueVars,
                    clouds_popped, mapVars, worker_notified, mutexVars, relative_motion,
                    pc, wpc >>

\* mutant of interactionMarkerCallBack: the pose_initialized_ check is missing
interactionMarkerCallBack_noTrackingCheck(init_pose_msg_in) ==
    /\ pc = "idle"
    /\ IF ~MapServiceEnabled
       THEN /\ ros_log' = 212
            /\ UNCHANGED << world_to_body_marker_msg_,
                            pose_marker_initialized_, initial_poses_set >>
       ELSE IF ~map_initialized_
       THEN /\ ros_log' = 216
            /\ UNCHANGED << world_to_body_marker_msg_,
                            pose_marker_initialized_, initial_poses_set >>
       ELSE /\ world_to_body_marker_msg_' = init_pose_msg_in
            /\ pose_marker_initialized_' = TRUE
            /\ initial_poses_set' = initial_poses_set + 1
            /\ UNCHANGED ros_log
    /\ UNCHANGED << configVars, pose_initialized_, map_initialized_, world_to_body_,
                    world_to_body_previous_, total_correction_, corrected_pose_,
                    updated_correction_, clear_clouds_buffer_, accuVars, queueVars,
                    clouds_popped, mapVars, worker_notified, mutexVars, relative_motion,
                    pc, wpc >>

\* lines 209-229: the marker pose is recorded until localization starts
interactionMarkerCallBack(init_pose_msg_in) ==
    /\ pc = "idle"
    /\ IF ~MapServiceEnabled
       THEN /\ ros_log' = 212
            /\ UNCHANGED << world_to_body_marker_msg_,
                            pose_marker_initialized_, initial_poses_set >>
       ELSE IF ~map_initialized_
       THEN /\ ros_log' = 216
            /\ UNCHANGED << world_to_body_marker_msg_,
                            pose_marker_initialized_, initial_poses_set >>
       ELSE IF ~pose_initialized_
       THEN /\ world_to_body_marker_msg_' = init_pose_msg_in
            /\ pose_marker_initialized_' = TRUE
            /\ initial_poses_set' = initial_poses_set + 1
            /\ UNCHANGED ros_log
       ELSE /\ ros_log' = 228
            /\ UNCHANGED << world_to_body_marker_msg_,
                            pose_marker_initialized_, initial_poses_set >>
    /\ UNCHANGED << configVars, pose_initialized_, map_initialized_, world_to_body_,
                    world_to_body_previous_, total_correction_, corrected_pose_,
                    updated_correction_, clear_clouds_buffer_, accuVars, queueVars,
                    clouds_popped, mapVars, worker_notified, mutexVars, relative_motion,
                    pc, wpc >>

\* mutant of loadMapFromFile: the pose_initialized_ check is missing
loadMapFromFile_noTrackingCheck(file, readable) ==
    /\ pc = "idle"
    /\ IF ~MapServiceEnabled
       THEN /\ ros_log' = 240 /\ response_success' = FALSE
            /\ UNCHANGED << prior_map_, map_initialized_ >>
       ELSE IF ~readable
       THEN /\ ros_log' = 255 /\ response_success' = FALSE
            /\ UNCHANGED << prior_map_, map_initialized_ >>
       ELSE /\ prior_map_' = file
            /\ map_initialized_' = TRUE
            /\ response_success' = TRUE
            /\ UNCHANGED ros_log
    /\ UNCHANGED << configVars, pose_initialized_, pose_marker_initialized_, poseVars,
                    updated_correction_, clear_clouds_buffer_, accuVars, queueVars,
                    clouds_popped, worker_notified, mutexVars, relative_motion, pc,
                    wpc >>
    /\ UNCHANGED initial_poses_set

\* file_path names map file `file`; `readable` is whether loadPLYFile succeeds
loadMapFromFile(file, readable) ==
    /\ pc = "idle"
    /\ IF ~MapServiceEnabled
       THEN /\ ros_log' = 240 /\ response_success' = FALSE
            /\ UNCHANGED << prior_map_, map_initialized_ >>
       ELSE IF pose_initialized_
       THEN /\ ros_log' = 246 /\ response_success' = FALSE
            /\ UNCHANGED << prior_map_, map_initialized_ >>
       ELSE IF ~readable
       THEN /\ ros_log' = 255 /\ response_success' = FALSE
            /\ UNCHANGED << prior_map_, map_initialized_ >>
       ELSE /\ prior_map_' = file
            /\ map_initialized_' = TRUE
            /\ response_success' = TRUE
            /\ UNCHANGED ros_log
    /\ UNCHANGED << configVars, pose_initialized_, pose_marker_initialized_, poseVars,
                    updated_correction_, clear_clouds_buffer_, accuVars, queueVars,
                    clouds_popped, worker_notified, mutexVars, relative_motion, pc,
                    wpc >>
    /\ UNCHANGED initial_poses_set

(* ------------------------------------------------------------------ *)
(* The alignment worker (App::operator())                             *)
(* ------------------------------------------------------------------ *)

\* popBlocking: woken by the notification or the timeout, takes data_mutex_ and
\* removes the front cloud
workerPop ==
    /\ wpc = "wait"
    /\ cloud_queue_ # << >>
    /\ data_mutex_ = "free"
    /\ data_mutex_' = "worker"
    /\ cloud_queue_' = Tail(cloud_queue_)
    /\ clouds_popped' = clouds_popped + 1
    /\ worker_notified' = FALSE
    /\ wpc' = "popped"
    /\ UNCHANGED << configVars, flagVars, poseVars, updated_correction_,
                    clear_clouds_buffer_, accuVars, clouds_made, drops_reported,
                    mapVars, ros_log, robot_state_mutex_, cloud_accumulate_mutex_,
                    relative_motion, pc >>
    /\ UNCHANGED initial_poses_set

\* the queue lock is released and the alignment starts
workerUnlock ==
    /\ wpc = "popped"
    /\ data_mutex_' = "free"
    /\ wpc' = "align"
    /\ UNCHANGED << configVars, flagVars, poseVars, updated_correction_,
                    clear_clouds_buffer_, accuVars, queueVars, clouds_popped, mapVars,
                    ros_log, worker_notified, robot_state_mutex_,
                    cloud_accumulate_mutex_, relative_motion, pc >>
    /\ UNCHANGED initial_poses_set

\* alignment succeeded: the pose lock is taken to apply the result
workerLockPose ==
    /\ wpc = "align"
    /\ robot_state_mutex_ = "free"
    /\ robot_state_mutex_' = "worker"
    /\ wpc' = "apply"
    /\ UNCHANGED << configVars, flagVars, poseVars, updated_correction_,
                    clear_clouds_buffer_, accuVars, queueVars, clouds_popped, mapVars,
                    ros_log, worker_notified, cloud_accumulate_mutex_, data_mutex_,
                    relative_motion, pc >>
    /\ UNCHANGED initial_poses_set

\* applyCorrection: the running correction is replaced and flagged as updated,
\* the pose lock released
applyCorrection(correction) ==
    /\ wpc = "apply"
    /\ total_correction_' = correction
    /\ updated_correction_' = TRUE
    /\ robot_state_mutex_' = "free"
    /\ wpc' = "wait"
    /\ UNCHANGED << configVars, flagVars, world_to_body_, world_to_body_previous_,
                    world_to_body_marker_msg_, corrected_pose_, clear_clouds_buffer_,
                    accuVars, queueVars, clouds_popped, mapVars, ros_log,
                    worker_notified, cloud_accumulate_mutex_, data_mutex_,
                    relative_motion, pc >>
    /\ UNCHANGED initial_poses_set

\* alignment failed: the cloud is discarded, no correction is applied
workerDiscard ==
    /\ wpc = "align"
    /\ wpc' = "wait"
    /\ UNCHANGED << configVars, flagVars, poseVars, updated_correction_,
                    clear_clouds_buffer_, accuVars, queueVars, clouds_popped, mapVars,
                    ros_log, worker_notified, mutexVars, relative_motion, pc >>
    /\ UNCHANGED initial_poses_set

(* ------------------------------------------------------------------ *)
(* Specifications                                                     *)
(* ------------------------------------------------------------------ *)

\* the scan offers explored: any that cannot finish a cloud, and those that can
\* while fewer than max clouds have been created
ScanBudget(max) ==
    \/ clouds_made < max
    \/ clear_clouds_buffer_
    \/ accu_counter + 1 < batch_size

\* the marker poses explored: any that is refused, and those accepted while
\* fewer than MaxInitialPoses have been
MarkerBudget ==
    \/ initial_poses_set < MaxInitialPoses
    \/ ~MapServiceEnabled
    \/ ~map_initialized_
    \/ pose_initialized_

\* the steps that continue a callback already entered
CallbackSteps ==
    \/ robotPoseCallBack_requestClear
    \/ robotPoseCallBack_return
    \/ velodyneCallBack_clear
    \/ velodyneCallBack_gate
    \/ velodyneCallBack_truncate

\* the worker's queue steps
WorkerQueueSteps ==
    \/ workerPop
    \/ workerUnlock
    \/ workerDiscard

\* every operation, every configuration
Next ==
    \/ \E p \in RawPoses : robotPoseCallBack(p)
    \/ ScanBudget(MaxClouds) /\ velodyneCallBack
    \/ CallbackSteps
    \/ \E m \in MarkerPoses : MarkerBudget /\ interactionMarkerCallBack(m)
    \/ \E f \in MapFiles, readable \in BOOLEAN : loadMapFromFile(f, readable)
    \/ WorkerQueueSteps
    \/ workerLockPose
    \/ \E c \in Corrections : applyCorrection(c)

Spec == Init /\ [][Next]_vars

\* the motion gate: map service disabled, a wider set of pose priors
InitGate == Init /\ ~MapServiceEnabled

NextGate ==
    \/ \E p \in GatePoses : robotPoseCallBack(p)
    \/ ScanBudget(MaxGateClouds) /\ velodyneCallBack
    \/ CallbackSteps
    \/ WorkerQueueSteps
    \/ workerLockPose
    \/ \E c \in Corrections : applyCorrection(c)

SpecGate == InitGate /\ [][NextGate]_vars

\* the bounded queue: map service disabled, every scan finishes a cloud, the
\* robot moves between two places, the alignment never succeeds
InitQueue == Init /\ ~MapServiceEnabled /\ batch_size = 1

NextQueue ==
    \/ \E p \in QueuePoses : robotPoseCallBack(p)
    \/ ScanBudget(MaxQueueDepth + QueueOverrun) /\ velodyneCallBack
    \/ robotPoseCallBack_return
    \/ velodyneCallBack_gate
    \/ velodyneCallBack_truncate
    \/ WorkerQueueSteps

SpecQueue == InitQueue /\ [][NextQueue]_vars

\* the push under load: as SpecQueue, the worker taking at most MaxPops clouds,
\* with the scheduling the threads have: a callback that can take its next step
\* takes it, and the worker leaves the critical section of its pop; nothing
\* makes the worker pop, align or finish
NextPush ==
    \/ \E p \in QueuePoses : robotPoseCallBack(p)
    \/ ScanBudget(MaxQueueDepth + QueueOverrun) /\ velodyneCallBack
    \/ robotPoseCallBack_return
    \/ velodyneCallBack_gate
    \/ velodyneCallBack_truncate
    \/ clouds_popped < MaxPops /\ workerPop
    \/ workerUnlock
    \/ workerDiscard

SpecPush ==
    /\ InitQueue
    /\ [][NextPush]_vars
    /\ WF_vars(velodyneCallBack_gate)
    /\ WF_vars(velodyneCallBack_truncate)
    /\ WF_vars(workerUnlock)

\* slow motion: map service disabled, the robot moves along a line by less
\* than the distance threshold from one pose prior to the next, scans keep
\* arriving, a callback that can take its next step takes it, and the worker
\* leaves the critical section of its pop
InitCreep == Init /\ ~MapServiceEnabled

CreepStep(p) ==
    pose_initialized_ =>
        NormSq(RelativeMotion(world_to_body_, p)) < DistThreshold * DistThreshold

NextCreep ==
    \/ \E p \in CreepPoses : CreepStep(p) /\ robotPoseCallBack(p)
    \/ ScanBudget(MaxGateClouds) /\ velodyneCallBack
    \/ robotPoseCallBack_return
    \/ velodyneCallBack_gate
    \/ velodyneCallBack_truncate
    \/ WorkerQueueSteps

SpecCreep ==
    /\ InitCreep
    /\ [][NextCreep]_vars
    /\ SF_vars(ScanBudget(MaxGateClouds) /\ velodyneCallBack)
    /\ WF_vars(robotPoseCallBack_return)
    /\ WF_vars(velodyneCallBack_gate)
    /\ WF_vars(velodyneCallBack_truncate)
    /\ WF_vars(workerUnlock)

(* ------------------------------------------------------------------ *)
(* Properties                                                         *)
(* ------------------------------------------------------------------ *)

\* the step of the callback thread that ends the push: truncation and unlock
TruncateStep == pc = "vc193" /\ pc' = "idle"

\* the last `n` elements of a sequence
Suffix(queue, n) == SubSeq(queue, Len(queue) - n + 1, Len(queue))

Min(a, b) == IF a < b THEN a ELSE b

\* C1: whenever the pushing callback does not hold data_mutex_ the queue holds
\* at most max_queue_size clouds; the step that ends a push keeps the newest
\* min(size, max_queue_size) clouds in order, so overflow is evicted from the
\* front only and the cloud just pushed stays at the back.
C1_BoundedDropOldest ==
    /\ [](data_mutex_ # "producer" => Len(cloud_queue_) <= MaxQueueDepth)
    /\ [][TruncateStep =>
            /\ cloud_queue_' = Suffix(cloud_queue_, Min(Len(cloud_queue_), MaxQueueDepth))
            /\ cloud_queue_'[Len(cloud_queue_')].id = clouds_made]_vars

\* C1 witness: a push onto a full queue has completed and evicted a cloud
C1_Witness ==
    /\ pc = "idle"
    /\ drops_reported > 0
    /\ Len(cloud_queue_) = MaxQueueDepth
    /\ cloud_queue_[MaxQueueDepth].id = clouds_made

\* C2: after N > max_queue_size pushes and no pop, outside the push itself the
\* queue holds exactly the clouds N - max_queue_size + 1 .. N in arrival order
\* and the reported drops total N - max_queue_size; every push raises the
\* reported drops by exactly the number of clouds it removed.
C2_RetainsNewest ==
    /\ []((clouds_popped = 0 /\ clouds_made > MaxQueueDepth /\ data_mutex_ # "producer") =>
            /\ Len(cloud_queue_) = MaxQueueDepth
            /\ \A i \in 1..MaxQueueDepth :
                   cloud_queue_[i].id = clouds_made - MaxQueueDepth + i
            /\ drops_reported = clouds_made - MaxQueueDepth)
    /\ [][TruncateStep =>
            drops_reported' - drops_reported = Len(cloud_queue_) - Len(cloud_queue_')]_vars

\* C2 witness: max_queue_size + 2 pushes, no pop, two drops reported
C2_Witness ==
    /\ pc = "idle"
    /\ clouds_popped = 0
    /\ clouds_made = MaxQueueDepth + 2
    /\ drops_reported = 2

\* the steps of the callback thread that make up one scan offer
ScanEntryStep == pc = "idle" /\ pc' \in {"vc150", "vc164"}
ScanClearStep == pc = "vc150" /\ pc' = "vc164"
GateStep == pc = "vc164" /\ pc' # "vc164"
ScanOfferStep == ScanEntryStep \/ ScanClearStep \/ GateStep

\* the motion from the last dispatched pose prior to the current one
MotionNow == RelativeMotion(world_to_body_previous_, world_to_body_)

\* translation at or below 1.0 and every Euler angle at or below 10 degrees
WithinThresholds(motion) ==
    /\ NormSq(motion) <= DistThreshold * DistThreshold
    /\ \A k \in 1..3 : Abs(quat_to_euler(motion)[k]) <= AngleThreshold

\* C3: a step of a scan offer made while the motion since the last dispatched
\* pose is within the distance threshold and within the angular threshold in
\* roll, pitch and yaw leaves the queue as it was and creates no cloud.
C3_NoDispatchWithinThresholds ==
    [][(ScanOfferStep /\ WithinThresholds(MotionNow)) =>
           /\ UNCHANGED << cloud_queue_, clouds_made >>
           /\ pc' # "vc193"]_vars

\* C3 witness: a cloud has just finished with the robot exactly 1.0 length
\* unit from the last dispatched pose and not rotated
C3_Witness ==
    /\ pc = "vc164"
    /\ accu_finished
    /\ NormSq(relative_motion) = DistThreshold * DistThreshold
    /\ WithinThresholds(relative_motion)
    /\ relative_motion = MotionNow

\* the k-th of the four dispatch conditions: distance, roll, pitch, yaw
Exceeds(k, motion) ==
    IF k = 0 THEN NormSq(motion) > DistThreshold * DistThreshold
    ELSE Abs(quat_to_euler(motion)[k]) > AngleThreshold

\* C4: for each of the four conditions alone, the gate step of a scan offer
\* taken with a finished cloud and that condition true appends exactly one
\* cloud, carrying the current pose prior, to the back of the queue; the step
\* that ends the push removes nothing unless the queue overflowed.
C4_DispatchOnMotion ==
    /\ [][\A k \in 0..3 :
            (GateStep /\ accu_finished /\ Exceeds(k, MotionNow)) =>
                /\ pc' = "vc193"
                /\ Len(cloud_queue_') = Len(cloud_queue_) + 1
                /\ SubSeq(cloud_queue_', 1, Len(cloud_queue_)) = cloud_queue_
                /\ cloud_queue_'[Len(cloud_queue_')].pose = world_to_body_
                /\ clouds_made' = clouds_made + 1]_vars
    /\ [][(TruncateStep /\ Len(cloud_queue_) <= MaxQueueDepth) =>
            UNCHANGED cloud_queue_]_vars

\* C4 witness: a cloud was pushed on pitch alone (no translation, roll and yaw 0)
C4_Witness ==
    /\ pc = "vc193"
    /\ pose_initialized_
    /\ NormSq(relative_motion) = 0
    /\ quat_to_euler(relative_motion)[1] = 0
    /\ quat_to_euler(relative_motion)[3] = 0
    /\ Abs(quat_to_euler(relative_motion)[2]) > AngleThreshold
    /\ cloud_queue_ # << >>

\* a pose prior has been accepted and composed; the callback has not returned
PoseComposed == pc \in {"rp101", "rp106"}

\* the step that accepts a pose prior
PoseEntryStep == pc = "idle" /\ pc' = "rp101"

RelayStep == pc = "rp101" /\ pc' # "rp101"

C7_MapLoad ==
    /\ [][\A f \in MapFiles :
            (loadMapFromFile(f, TRUE) /\ MapServiceEnabled /\ ~pose_initialized_) =>
                (response_success' /\ prior_map_' = f /\ map_initialized_')]_vars
    /\ [][\A f \in MapFiles, readable \in BOOLEAN :
            (loadMapFromFile(f, readable) /\ MapServiceEnabled /\ pose_initialized_) =>
                ~response_success']_vars
    /\ [][pose_initialized_ => UNCHANGED << prior_map_, map_initialized_ >>]_vars

\* C7 witness: a load issued after tracking started has been refused and the
\* prior map loaded earlier is still in place
C7_Witness ==
    /\ MapServiceEnabled
    /\ pose_initialized_
    /\ ros_log = 246
    /\ ~response_success
    /\ map_initialized_
    /\ prior_map_ \in MapFiles

\* the pose state is written, or read by line 159
PoseStateWritten ==
    \/ world_to_body_' # world_to_body_
    \/ world_to_body_previous_' # world_to_body_previous_
    \/ total_correction_' # total_correction_
PoseStateRead == (ScanEntryStep /\ pc' = "vc164") \/ ScanClearStep

\* C8 as stated: a corrected pose just composed equals the running correction
\* composed with the last pose prior, and every step that writes the pose
\* prior, the previous pose prior or the running correction, or reads them for
\* the motion gate, is taken with robot_state_mutex_ held.
C8_Original ==
    /\ [](PoseComposed => corrected_pose_ = Compose(total_correction_, world_to_body_))
    /\ [][(PoseStateWritten \/ PoseStateRead) =>
            (robot_state_mutex_ # "free" \/ robot_state_mutex_' # "free")]_vars

\* the locks a thread holds
LocksHeldBy(thread) ==
    { m \in 1..3 :
        << robot_state_mutex_, cloud_accumulate_mutex_, data_mutex_ >>[m] = thread }

\* C9 as stated: no thread ever holds two of the three locks at once.
C9_Original ==
    \A thread \in {"producer", "worker"} : Cardinality(LocksHeldBy(thread)) <= 1

\* C10: while the map service is enabled and no marker pose has been accepted,
\* a pose prior changes neither the pose prior, the previous pose prior, the
\* running correction nor the three lifecycle flags, and no step at all changes
\* the first three; before pose_initialized_ is set a scan offer changes neither
\* the accumulator, the queue, the previous pose prior nor clear_clouds_buffer_.
C10_RejectedIsNoOp ==
    /\ [][\A p \in RawPoses :
            (robotPoseCallBack(p) /\ MapServiceEnabled /\ ~pose_marker_initialized_) =>
                UNCHANGED << world_to_body_, world_to_body_previous_,
                             total_correction_, flagVars, pc >>]_vars
    /\ [][(MapServiceEnabled /\ ~pose_marker_initialized_) =>
            UNCHANGED << world_to_body_, world_to_body_previous_, total_correction_,
                         pose_initialized_ >>]_vars
    /\ [][(velodyneCallBack /\ ~pose_initialized_) =>
            UNCHANGED << accuVars, queueVars, world_to_body_previous_,
                         clear_clouds_buffer_, pc >>]_vars

\* C10 witness: a pose prior has been rejected while the marker is awaited
C10_Witness ==
    /\ MapServiceEnabled
    /\ ~pose_marker_initialized_
    /\ ros_log = 56
    /\ world_to_body_ = Identity
    /\ pc = "idle"

\* LocalizationLifecycle as the three flags encode it: 1 AwaitingSeed,
\* 2 AwaitingFirstPose, 3 Tracking
Lifecycle(pose_set, marker_set) ==
    IF pose_set THEN 3
    ELSE IF MapServiceEnabled /\ ~marker_set THEN 1
    ELSE 2

\* C11: the lifecycle never moves backwards and Tracking, once entered, holds
\* forever; in Tracking a marker request changes neither the marker pose, the
\* marker flag nor the running correction, and a map load returns failure and
\* leaves the prior map as it was.
C11_LifecycleForward ==
    /\ [][Lifecycle(pose_initialized_', pose_marker_initialized_')
            >= Lifecycle(pose_initialized_, pose_marker_initialized_)]_vars
    /\ [][pose_initialized_ => pose_initialized_']_vars
    /\ [][\A m \in MarkerPoses :
            (interactionMarkerCallBack(m) /\ pose_initialized_) =>
                UNCHANGED << world_to_body_marker_msg_, pose_marker_initialized_,
                             total_correction_, pose_initialized_ >>]_vars
    /\ [][\A f \in MapFiles, readable \in BOOLEAN :
            (loadMapFromFile(f, readable) /\ pose_initialized_) =>
                /\ ~response_success'
                /\ UNCHANGED << prior_map_, map_initialized_, pose_initialized_ >>]_vars

\* C11 witness: in Tracking, reached through AwaitingSeed and AwaitingFirstPose,
\* a marker request naming another pose than the recorded one was refused
C11_Witness ==
    /\ MapServiceEnabled
    /\ pose_initialized_
    /\ pose_marker_initialized_
    /\ ros_log = 228
    /\ \E m \in MarkerPoses : m # world_to_body_marker_msg_

\* C12: a scan offer at the gate can always take its step unless the worker is
\* inside the critical section of its pop, which the worker can always leave;
\* a scan offer that has pushed can always take its last step, whatever the
\* length of the queue and wherever the worker is.  A scan offer is over two
\* steps after the gate at most, the queue shrinks in a callback step only by
\* the removal of the oldest clouds beyond max_queue_size, and every scan offer
\* at the gate returns.
C12_PushNeverBlocks ==
    /\ []((pc = "vc164" /\ data_mutex_ # "worker") => ENABLED velodyneCallBack_gate)
    /\ [](data_mutex_ = "worker" => ENABLED workerUnlock)
    /\ [](pc = "vc193" => ENABLED velodyneCallBack_truncate)
    /\ [][GateStep => pc' \in {"vc193", "idle"}]_vars
    /\ [][(pc = "vc193" /\ pc' # pc) => pc' = "idle"]_vars
    /\ [][(pc' # pc /\ Len(cloud_queue_') < Len(cloud_queue_)) =>
            /\ TruncateStep
            /\ Len(cloud_queue_) > MaxQueueDepth
            /\ cloud_queue_' = Suffix(cloud_queue_, MaxQueueDepth)]_vars
    /\ (pc \in {"vc164", "vc193"}) ~> (pc = "idle")

\* C12 witness: a push onto a full queue has returned while the worker, which
\* had popped a cloud earlier, was busy aligning
C12_Witness ==
    /\ pc = "idle"
    /\ wpc = "align"
    /\ drops_reported > 0
    /\ Len(cloud_queue_) = MaxQueueDepth
    /\ cloud_queue_[MaxQueueDepth].id = clouds_made
    /\ clouds_popped > 0

\* C13 as stated: at most one marker request changes the recorded marker pose,
\* that is, only a request made before any marker pose was accepted changes it.
C13_Original ==
    [][world_to_body_marker_msg_' # world_to_body_marker_msg_ =>
           initial_poses_set = 0]_vars

\* C13 amended: with the map service enabled and a map loaded, every marker
\* request made before pose_initialized_ is set is accepted and replaces the
\* recorded marker pose; the recorded marker pose changes in no other step; the
\* initial correction is derived from the marker pose recorded last before the
\* first accepted pose prior.
C13_SeedReplacedUntilTracking ==
    /\ [][\A m \in MarkerPoses :
            (/\ interactionMarkerCallBack(m)
             /\ MapServiceEnabled /\ map_initialized_ /\ ~pose_initialized_) =>
                /\ world_to_body_marker_msg_' = m
                /\ pose_marker_initialized_'
                /\ initial_poses_set' = initial_poses_set + 1]_vars
    /\ [][world_to_body_marker_msg_' # world_to_body_marker_msg_ =>
            (MapServiceEnabled /\ map_initialized_ /\ ~pose_initialized_ /\ pc = "idle")]_vars
    /\ []((PoseComposed /\ ~pose_initialized_ /\ MapServiceEnabled) =>
            total_correction_ = InitialCorrection(world_to_body_marker_msg_, world_to_body_))

\* C13 witness: two marker poses were accepted one after the other and the
\* first pose prior has been composed with the correction derived from the second
C13_Witness ==
    /\ PoseComposed
    /\ ~pose_initialized_
    /\ initial_poses_set = 2
    /\ world_to_body_ # Identity
    /\ total_correction_ = InitialCorrection(world_to_body_marker_msg_, world_to_body_)

\* C14: the gate step taken with a finished cloud either rejects it, clearing
\* the accumulator and notifying the worker in that step with the queue left
\* alone, or pushes it, and then the step that ends the push clears the
\* accumulator and notifies the worker; the push itself notifies nobody.  With
\* no finished cloud the gate step clears nothing and notifies nobody, and the
\* worker is notified in no other step.  Hence no scan offer returns with a
\* finished cloud in the accumulator.
C14_ClearAndNotifyOnFinished ==
    /\ [][(GateStep /\ accu_finished /\ pc' = "idle") =>
            /\ accu_counter' = 0 /\ ~accu_finished'
            /\ worker_notified'
            /\ UNCHANGED << cloud_queue_, clouds_made >>]_vars
    /\ [][(GateStep /\ accu_finished /\ pc' # "idle") =>
            /\ pc' = "vc193"
            /\ UNCHANGED << accuVars, worker_notified >>]_vars
    /\ [][TruncateStep =>
            (accu_counter' = 0 /\ ~accu_finished' /\ worker_notified')]_vars
    /\ [][(GateStep /\ ~accu_finished) =>
            (pc' = "idle" /\ UNCHANGED << accuVars, worker_notified >>)]_vars
    /\ [][(worker_notified' /\ ~worker_notified) =>
            ((GateStep /\ accu_finished /\ pc' = "idle") \/ TruncateStep)]_vars
    /\ [](pc = "idle" => (~accu_finished /\ accu_counter < batch_size))

\* C14 witness: a finished cloud of two scans was rejected by the motion gate:
\* the worker is notified although nothing was ever pushed, and the
\* accumulator is empty again
C14_Witness ==
    /\ pc = "idle"
    /\ pose_initialized_
    /\ batch_size = 2
    /\ worker_notified
    /\ clouds_made = 0
    /\ accu_counter = 0
    /\ ~accu_finished

\* the step of a scan offer that pushes a cloud
DispatchStep == GateStep /\ pc' = "vc193"

\* C15: the step that pushes a cloud sets world_to_body_previous_ to the current
\* pose prior, which differs from the old value, and the cloud pushed carries
\* that same pose; every other step of a scan offer leaves
\* world_to_body_previous_ alone and, up to the removal of overflow that ends a
\* push, the queue too.  Outside scan offers world_to_body_previous_ is written
\* only by the first accepted pose prior.
C15_BaselineAdvancesOnDispatch ==
    /\ [][DispatchStep =>
            /\ world_to_body_previous_' = world_to_body_
            /\ world_to_body_previous_' # world_to_body_previous_
            /\ cloud_queue_'[Len(cloud_queue_')].pose = world_to_body_previous_'
            /\ UNCHANGED world_to_body_]_vars
    /\ [][(ScanOfferStep /\ ~DispatchStep) =>
            UNCHANGED << world_to_body_previous_, cloud_queue_, clouds_made >>]_vars
    /\ [][TruncateStep => UNCHANGED world_to_body_previous_]_vars
    /\ [][world_to_body_previous_' # world_to_body_previous_ =>
            (DispatchStep \/ (PoseEntryStep /\ ~pose_initialized_))]_vars

\* C15 witness: a second cloud has been pushed; it carries the current pose
\* prior, which is now the previous one too, and the cloud before it carries
\* another pose
C15_Witness ==
    /\ pc = "vc193"
    /\ Len(cloud_queue_) = 2
    /\ cloud_queue_[2].pose = world_to_body_previous_
    /\ world_to_body_previous_ = world_to_body_
    /\ cloud_queue_[1].pose # cloud_queue_[2].pose

\* the step in which the worker applies a correction
ApplyStep == wpc = "apply" /\ wpc' = "wait"

\* C16: until the first pose prior is accepted the correction is the identity;
\* the first accepted pose prior derives it (from the marker pose with the map
\* service enabled, leaving the identity otherwise) and the callback that did
\* so returns with pose_initialized_ set for good, so no second derivation
\* follows; every later pose prior leaves the correction alone, and the
\* correction changes in no step other than the first accepted pose prior and
\* the worker's applyCorrection.
C16_DerivedOnce ==
    /\ []((pc = "idle" /\ ~pose_initialized_) => total_correction_ = Identity)
    /\ [][(PoseEntryStep /\ ~pose_initialized_) =>
            total_correction_' =
                IF MapServiceEnabled
                THEN InitialCorrection(world_to_body_marker_msg_, world_to_body_')
                ELSE Identity]_vars
    /\ [][(PoseComposed /\ pc' = "idle") => pose_initialized_']_vars
    /\ [][pose_initialized_ => pose_initialized_']_vars
    /\ [][(PoseEntryStep /\ pose_initialized_) => UNCHANGED total_correction_]_vars
    /\ [][total_correction_' # total_correction_ =>
            \/ PoseEntryStep /\ ~pose_initialized_ /\ MapServiceEnabled
            \/ ApplyStep /\ pose_initialized_]_vars

\* C16 witness: a later pose prior has been accepted and composed with the
\* correction derived from the marker pose at the first one, which is not the
\* correction the marker pose and this pose prior would give
C16_Witness ==
    /\ PoseComposed
    /\ pose_initialized_
    /\ MapServiceEnabled
    /\ total_correction_ \notin Corrections
    /\ total_correction_ # Identity
    /\ total_correction_ # InitialCorrection(world_to_body_marker_msg_, world_to_body_)
    /\ corrected_pose_ = CorrectedPose(total_correction_, world_to_body_)

\* C17: with the map service enabled, as long as no load has succeeded (the
\* one made at construction included) no marker pose and no pose prior has
\* been accepted, no scan has reached the accumulator, no cloud was created,
\* the queue is empty and the callback thread is in no callback; a load of an
\* unreadable file returns failure and changes none of the three lifecycle
\* flags, so this lasts for as long as every load fails.
C17_GatedWithoutMap ==
    /\ []((MapServiceEnabled /\ ~map_initialized_) =>
            /\ ~pose_marker_initialized_ /\ ~pose_initialized_
            /\ initial_poses_set = 0
            /\ world_to_body_ = Identity /\ world_to_body_marker_msg_ = Identity
            /\ total_correction_ = Identity
            /\ accu_counter = 0 /\ ~accu_finished
            /\ clouds_made = 0 /\ cloud_queue_ = << >>
            /\ prior_map_ = 0 /\ ~response_success
            /\ pc = "idle")
    /\ [][\A f \in MapFiles :
            loadMapFromFile(f, FALSE) => (~response_success' /\ UNCHANGED flagVars)]_vars
    /\ [][(MapServiceEnabled /\ ~map_initialized_ /\ map_initialized_') =>
            \E f \in MapFiles : loadMapFromFile(f, TRUE)]_vars

\* C17 witness: with the map service enabled and every load so far failed, a
\* marker pose has just been refused for want of a map
C17_Witness ==
    /\ MapServiceEnabled
    /\ ~map_initialized_
    /\ ~response_success
    /\ ros_log = 216
    /\ ~pose_marker_initialized_

\* C18: with the map service enabled, pose_initialized_ implies
\* pose_marker_initialized_, which implies map_initialized_, which holds exactly
\* when prior_map_ points to a map; so prior_map_ points to a map whenever
\* loadMapFromFile takes the branch of lines 243-248, which dereferences it.
C18_FlagsOrdered ==
    MapServiceEnabled =>
        /\ pose_initialized_ => pose_marker_initialized_
        /\ pose_marker_initialized_ => map_initialized_
        /\ map_initialized_ <=> prior_map_ \in MapFiles
        /\ pose_initialized_ => prior_map_ \in MapFiles
        /\ ros_log = 246 => prior_map_ \in MapFiles

\* C18 witness: a reload was refused after localization started, with all
\* three flags set and the map of the second file, loaded before, in place
C18_Witness ==
    /\ MapServiceEnabled
    /\ pose_initialized_ /\ pose_marker_initialized_ /\ map_initialized_
    /\ ros_log = 246
    /\ prior_map_ = 2
    /\ pc = "idle"

\* C19: no cloud is created or queued before pose_initialized_ is set.  The
\* first accepted pose prior becomes world_to_body_previous_, and a push
\* replaces it by the pose of the cloud pushed, so a cloud is always pushed
\* with the pose of the cloud pushed before it, or the first accepted pose
\* prior, as world_to_body_previous_; the motion from there to the pose of the
\* cloud pushed exceeds the distance threshold or the angle threshold in roll,
\* pitch or yaw.  Clouds next to each other in the queue were pushed one right
\* after the other, and the motion between their poses exceeds a threshold
\* in the same way.
C19_DispatchedPosesApart ==
    /\ [](~pose_initialized_ => (clouds_made = 0 /\ cloud_queue_ = << >>))
    /\ [][(PoseEntryStep /\ ~pose_initialized_) =>
            world_to_body_previous_' = world_to_body_']_vars
    /\ [][DispatchStep =>
            /\ pose_initialized_
            /\ \E k \in 0..3 :
                   Exceeds(k, RelativeMotion(world_to_body_previous_,
                                             cloud_queue_'[Len(cloud_queue_')].pose))
            /\ world_to_body_previous_' = cloud_queue_'[Len(cloud_queue_')].pose]_vars
    /\ [][world_to_body_previous_' # world_to_body_previous_ =>
            (DispatchStep \/ (PoseEntryStep /\ ~pose_initialized_ /\ clouds_made = 0))]_vars
    /\ [](\A i \in 1..(Len(cloud_queue_) - 1) :
            /\ cloud_queue_[i + 1].id = cloud_queue_[i].id + 1
            /\ \E k \in 0..3 :
                   Exceeds(k, RelativeMotion(cloud_queue_[i].pose,
                                             cloud_queue_[i + 1].pose)))

\* C19 witness: two clouds pushed one after the other are in the queue, the
\* first away from the first accepted pose prior, the second turned against
\* the first without any translation between them
C19_Witness ==
    /\ pc = "idle"
    /\ Len(cloud_queue_) = 2
    /\ cloud_queue_[1].id = 1
    /\ NormSq(RelativeMotion(cloud_queue_[1].pose, cloud_queue_[2].pose)) = 0
    /\ cloud_queue_[2].pose = world_to_body_previous_

\* C20: under slow motion (each pose prior less than the distance threshold
\* from the one before) a finished cloud that is rejected leaves
\* world_to_body_previous_ alone, and a cloud that finishes with the motion
\* since world_to_body_previous_ beyond a threshold is pushed; so whenever that
\* motion is beyond a threshold, either a cloud is pushed or the robot comes
\* back within the thresholds.
C20_BaselineKeptOnReject ==
    /\ [][(PoseEntryStep /\ pose_initialized_) =>
            NormSq(RelativeMotion(world_to_body_, world_to_body_'))
                < DistThreshold * DistThreshold]_vars
    /\ [][(GateStep /\ pc' = "idle") => UNCHANGED world_to_body_previous_]_vars
    /\ [][(GateStep /\ accu_finished /\ ~WithinThresholds(MotionNow)) =>
            DispatchStep]_vars
    /\ \A n \in 0..(MaxGateClouds - 1) :
           (pose_initialized_ /\ clouds_made = n /\ ~WithinThresholds(MotionNow))
               ~> (clouds_made > n \/ WithinThresholds(MotionNow))

\* C20 witness: the first cloud ever pushed, 1.5 length units from the first
\* pose prior, reached in steps of half a length unit, after a finished cloud
\* was rejected on the way (the worker was notified with nothing queued)
C20_Witness ==
    /\ pc = "vc193"
    /\ clouds_made = 1
    /\ clouds_popped = 0
    /\ worker_notified
    /\ NormSq(relative_motion) = 15 * 15
    /\ world_to_body_previous_ = world_to_body_

====
